---------------------------- MODULE Spec2Model ----------------------------
(***************************************************************************)
(* Model of lib/main.js of the package-publish / fast-publish editor       *)
(* package: the version bumper, the change detector, the two git backends, *)
(* the lock-file guard and the two release pipelines (publish, ppmPublish).*)
(*                                                                         *)
(* Strings are sequences of tokens.  A version string is a sequence of     *)
(* one-character tokens ("1", ".", "0", ...); a literal piece of a         *)
(* template string is one token ("Prepare v").  Every step of an async     *)
(* function between two awaits is one action.                              *)
(***************************************************************************)
EXTENDS Integers, Sequences, FiniteSets, TLC

(***************************************************************************)
(* Bounds of the model.                                                    *)
(***************************************************************************)
\* the manifest starts from a version k.(9-k).k with k in 0..MaxComp; the
\* bumper alone is applied to components from 0..MaxComp, 9 and 99
MaxComp == 1
\* number of command invocations in one behaviour
MaxInvocations == 1
\* number of invocation slots (async calls that may be in flight)
NumProcs == 2

Procs == 1..NumProcs

(***************************************************************************)
(* JavaScript string and number primitives used by the code.               *)
(***************************************************************************)
DigitChars == <<"0", "1", "2", "3", "4", "5", "6", "7", "8", "9">>

IsDigit(c) == \E i \in 1..10 : DigitChars[i] = c

DigitVal(c) == (CHOOSE i \in 1..10 : DigitChars[i] = c) - 1

\* the number NaN (no natural number is negative)
NaN == 0 - 1

\* String(n) for a number n
RECURSIVE NumToStr(_)
NumToStr(n) ==
    IF n = NaN THEN <<"NaN">>
    ELSE IF n < 10 THEN <<DigitChars[n + 1]>>
    ELSE NumToStr(n \div 10) \o <<DigitChars[(n % 10) + 1]>>

\* value of the longest prefix of digits of s, from position i on
RECURSIVE DigitPrefix(_, _, _)
DigitPrefix(s, i, acc) ==
    IF i > Len(s) \/ ~IsDigit(s[i]) THEN acc
    ELSE DigitPrefix(s, i + 1, acc * 10 + DigitVal(s[i]))

\* parseInt(s): the leading digits of s, NaN when s does not start with one
ParseInt(s) ==
    IF s = <<>> \/ ~IsDigit(s[1]) THEN NaN ELSE DigitPrefix(s, 1, 0)

\* x + 1 for a number x
Plus1(x) == IF x = NaN THEN NaN ELSE x + 1

\* s.split(sep) for a one-character separator
RECURSIVE Split(_, _)
Split(s, sep) ==
    IF \A i \in 1..Len(s) : s[i] # sep THEN <<s>>
    ELSE LET k == CHOOSE i \in 1..Len(s) :
                     s[i] = sep /\ \A j \in 1..(i - 1) : s[j] # sep
         IN  <<SubSeq(s, 1, k - 1)>> \o Split(SubSeq(s, k + 1, Len(s)), sep)

\* arr.join(sep)
RECURSIVE Join(_, _)
Join(arr, sep) ==
    IF arr = <<>> THEN <<>>
    ELSE IF Len(arr) = 1 THEN arr[1]
    ELSE arr[1] \o <<sep>> \o Join(Tail(arr), sep)

\* arr[i] (1-based here), undefined beyond the end
At(arr, i) == IF i <= Len(arr) THEN arr[i] ELSE <<"undefined">>

\* arr[i] = v (1-based here): the array grows, the holes join as ""
SetAt(arr, i, v) ==
    [j \in 1..(IF i > Len(arr) THEN i ELSE Len(arr)) |->
        IF j = i THEN v ELSE IF j <= Len(arr) THEN arr[j] ELSE <<>>]

\* s.trim() over the whitespace tokens " " and "\n"
IsSpace(c) == c \in {" ", "\n"}

RECURSIVE TrimLeft(_)
TrimLeft(s) == IF s # <<>> /\ IsSpace(s[1]) THEN TrimLeft(Tail(s)) ELSE s

RECURSIVE TrimRight(_)
TrimRight(s) ==
    IF s # <<>> /\ IsSpace(s[Len(s)]) THEN TrimRight(SubSeq(s, 1, Len(s) - 1))
    ELSE s

Trim(s) == TrimRight(TrimLeft(s))

\* mode.endsWith("-if"), the suffix being one token of a mode string
EndsWithIf(mode) == mode # <<>> /\ mode[Len(mode)] = "-if"

\* a mode.slice that leaves the suffix on
SliceIfKeep(mode) == mode

\* mode.slice(0, -3): the mode without its last three characters
SliceIf(mode) == SubSeq(mode, 1, Len(mode) - 1)

\* path.basename(p) of a path given as its sequence of segments
Basename(p) == IF p = <<>> THEN "" ELSE p[Len(p)]

(***************************************************************************)
(* increaseVersionNumber                                                   *)
(***************************************************************************)
\* increaseVersionNumber with the reset of patch forgotten in mode minor
increaseVersionNumberNoReset(version, mode) ==
    LET v == Split(version, ".")
    IN  IF mode = <<"major">>
        THEN Join(SetAt(SetAt(SetAt(v, 1, NumToStr(Plus1(ParseInt(At(v, 1))))),
                              2, <<"0">>), 3, <<"0">>), ".")
        ELSE IF mode = <<"minor">>
        THEN Join(SetAt(v, 2, NumToStr(Plus1(ParseInt(At(v, 2))))), ".")
        ELSE IF mode = <<"patch">>
        THEN Join(SetAt(v, 3, NumToStr(Plus1(ParseInt(At(v, 3))))), ".")
        ELSE Join(v, ".")

increaseVersionNumber(version, mode) ==
    LET v == Split(version, ".")
    IN  IF mode = <<"major">>
        THEN Join(SetAt(SetAt(SetAt(v, 1, NumToStr(Plus1(ParseInt(At(v, 1))))),
                              2, <<"0">>), 3, <<"0">>), ".")
        ELSE IF mode = <<"minor">>
        THEN Join(SetAt(SetAt(v, 2, NumToStr(Plus1(ParseInt(At(v, 2))))),
                        3, <<"0">>), ".")
        ELSE IF mode = <<"patch">>
        THEN Join(SetAt(v, 3, NumToStr(Plus1(ParseInt(At(v, 3))))), ".")
        ELSE Join(v, ".")

(***************************************************************************)
(* Values.                                                                 *)
(***************************************************************************)
Undefined == <<"undefined">>

\* a string is truthy unless undefined or empty
Truthy(s) == s # Undefined /\ s # <<>>

\* a || b || c
Or3(a, b, c) == IF Truthy(a) THEN a ELSE IF Truthy(b) THEN b ELSE c

\* "a.b.c" for numbers a, b, c
VersionStr(a, b, c) ==
    NumToStr(a) \o <<".">> \o NumToStr(b) \o <<".">> \o NumToStr(c)

\* the working directory every command of the model is run on
Dir == <<"home", "packages", "pkg">>

Modes == { <<"major">>, <<"minor">>, <<"patch">>,
           <<"major", "-if">>, <<"minor", "-if">>, <<"patch", "-if">> }

Ops == {"publish", "ppmPublish"}

\* outputs of git diff --stat: nothing, blank, or a line of statistics
DiffOutputs == { <<>>, <<" ", "\n">>, <<" ", "1 file changed", "\n">> }

\* versions of the manifest a behaviour may start from: k.(9-k).k
InitVersions == { VersionStr(k, 9 - k, k) : k \in 0..MaxComp }

\* package.json: a JSON document (obj: its top-level fields), garbled text,
\* or no file
JsonFile(obj) == [kind |-> "json", obj |-> obj]
GarbledFile == [kind |-> "garbled", obj |-> <<>>]
MissingFile == [kind |-> "missing", obj |-> <<>>]

InitManifests ==
    { JsonFile([name |-> <<"pkg">>, version |-> v, license |-> <<"MIT">>]) :
        v \in InitVersions }
    \cup { JsonFile([name |-> <<"pkg">>]), GarbledFile, MissingFile }

\* the repository before the first release, or with one earlier tag
EmptyRepo == [staged |-> FALSE, commits |-> <<>>, tags |-> <<>>, pushed |-> <<>>]
TaggedRepo ==
    [staged |-> FALSE, commits |-> << <<"Initial commit">> >>,
     tags |-> << [name |-> <<"v", "0", ".", "0", ".", "0">>,
                  msg |-> <<"Initial commit">>] >>,
     pushed |-> << <<"v", "0", ".", "0", ".", "0">> >>]

VARIABLES
    manifest,      \* the file <Dir>/package.json
    repo,          \* the git repository of Dir
    lock,          \* whether <Dir>/.git/index.lock exists
    githubLoaded,  \* whether the github package is loaded and requirable
    GitStrategy,   \* the module-level cache of getGitStrategy
    invocations,   \* number of commands invoked so far
    pc,            \* per invocation: the await it is suspended at
    op,            \* per invocation: publish or ppmPublish
    mode,          \* per invocation: the variable mode
    lastTag,       \* per invocation: lastTag of hasChangesSinceLastTag
    diff,          \* per invocation: diff of hasChangesSinceLastTag
    hasChanges,    \* per invocation: hasChanges of publish / ppmPublish
    data,          \* per invocation: data of publish
    oldVersion,    \* per invocation: oldVersion of publish
    newVersion,    \* per invocation: newVersion of publish
    mode0,         \* observer: the mode the invocation was called with
    manifest0,     \* observer: the manifest when the invocation was called
    cmds,          \* observer: the external commands the invocation started
    guard,         \* observer: the calls of removeGitLockFile it made
    notes          \* observer: the notifications it emitted

shared == <<manifest, repo, lock, githubLoaded, GitStrategy, invocations>>
locals == <<pc, op, mode, lastTag, diff, hasChanges, data, oldVersion, newVersion>>
observers == <<mode0, manifest0, cmds, guard, notes>>
vars == <<shared, locals, observers>>

Upd(f, p, v) == [f EXCEPT ![p] = v]

pkgName == Basename(Dir)

(***************************************************************************)
(* Module-level helpers of main.js.                                        *)
(***************************************************************************)
\* a getGitStrategy whose probe never finds the package
getGitStrategyNever(cache, loaded) == cache

\* getGitStrategy: the cache after the call
getGitStrategy(cache, loaded) ==
    IF cache # "null" THEN cache
    ELSE IF loaded THEN "GitShellOutStrategy"
    ELSE "null"

\* a removeGitLockFile that leaves the file
removeGitLockFileKeeps(lk, unlinkFails) == lk

\* removeGitLockFile: whether index.lock exists after the call; unlinkFails
\* is whether fs.unlinkSync throws (the error is ignored)
removeGitLockFile(lk, unlinkFails) == lk /\ unlinkFails

\* the outcomes fs.unlinkSync can have
UnlinkOutcomes == BOOLEAN

(***************************************************************************)
(* Texts of gitPrepare and of the commands.                                *)
(***************************************************************************)
\* path.join(dirPath, "package.json")
jsonPath == Append(Dir, "package.json")

commitMessage(version) == <<"Prepare v">> \o version \o <<" release">>

\* a tag named by the bare version
tagBare(version) == version

tag(version) == <<"v">> \o version

\* the argument vector given to git.exec (be = "strategy"), or the command
\* line given to execAsync (be = "exec"), of each command; x is the version,
\* the last tag or the mode the command is built from
Argv(cmd, be, x) ==
    IF be = "strategy" THEN
        CASE cmd = "describe" -> << <<"describe">>, <<"--tags">>, <<"--abbrev=0">> >>
          [] cmd = "diff"     -> << <<"diff">>, x \o <<"..HEAD">>, <<"--stat">> >>
          [] cmd = "add"      -> << <<"add">>, <<"--all">> >>
          [] cmd = "commit"   -> << <<"commit">>, <<"--all">>, <<"-m">>, commitMessage(x) >>
          [] cmd = "tag"      -> << <<"tag">>, <<"-a">>, tag(x), <<"-m">>, commitMessage(x) >>
          [] cmd = "push"     -> << <<"push">>, <<"origin">>, <<"--tags">> >>
          [] cmd = "gitpush"  -> << <<"push">>, <<"origin">> >>
          [] OTHER            -> <<>>
    ELSE
        CASE cmd = "describe" -> << <<"git describe --tags --abbrev=0">> >>
          [] cmd = "diff"     -> << <<"git diff ">> \o Trim(x) \o <<"..HEAD --stat">> >>
          [] cmd = "add"      -> << <<"git add --all">> >>
          [] cmd = "commit"   -> << <<"git commit --all -m \"">> \o commitMessage(x) \o <<"\"">> >>
          [] cmd = "tag"      -> << <<"git tag -a ">> \o tag(x) \o <<" -m \"">>
                                      \o commitMessage(x) \o <<"\"">> >>
          [] cmd = "push"     -> << <<"git push origin --tags">> >>
          [] cmd = "gitpush"  -> << <<"git push origin">> >>
          [] cmd = "ppm"      -> << <<"ppm publish ">> \o x >>
          [] cmd \in {"readFile", "writeFile"} -> << jsonPath >>
          [] OTHER            -> <<>>

\* the sub-steps with the tag made before the commit
NextStepTagFirst(cmd) ==
    CASE cmd = "add"    -> "tag"
      [] cmd = "tag"    -> "commit"
      [] cmd = "commit" -> "push"
      [] OTHER          -> "none"

\* the order of the sub-steps of gitPrepare
NextStep(cmd) ==
    CASE cmd = "add"    -> "commit"
      [] cmd = "commit" -> "tag"
      [] cmd = "tag"    -> "push"
      [] OTHER          -> "none"

\* a try block goes on to its next statement iff the awaited step did not throw
detectTry(ok) == ok
\* a publish that ignores a failed read, parse or write
publishTryIgnore(ok) == TRUE

publishTry(ok) == ok
\* a gitPrepare that ignores a failed sub-step
gitPrepareTryIgnore(ok) == TRUE

gitPrepareTry(ok) == ok
\* a ppmPublish whose try block goes on after a failed ppm publish
ppmPublishTryIgnore(ok) == TRUE

ppmPublishTry(ok) == ok
gitPushTry(ok) == ok

\* a catch block that throws the error on: the call ends with an error
afterCatchRethrown == "uncaught"

\* where a function is after its catch block has run: the catch blocks of
\* publish, gitPrepare, ppmPublish and gitPush only notify, so the function
\* returns
afterCatch == "done"

\* a catch that returns false
detectCatchFalse == "false"

\* the catch of hasChangesSinceLastTag returns true
detectCatch == "true"

\* diff.length > 0, the trim forgotten
DiffHasChangesNoTrim(d) == IF Len(d) > 0 THEN "true" ELSE "false"

\* diff.trim().length > 0
DiffHasChanges(d) == IF Len(Trim(d)) > 0 THEN "true" ELSE "false"

\* a gate that never returns early
GateSkipsNever(hc) == FALSE

\* if (!hasChanges) { addInfo(...); return; }
GateSkips(hc) == hc = "false"

\* the error a failed command rejects with: child_process.exec sets stderr,
\* the strategy of the github package sets stdErr
ErrOfCmd(be, cmd) ==
    IF be = "exec"
    THEN [stderr |-> <<"stderr of ", cmd>>, stdErr |-> Undefined,
          message |-> <<"Command failed: ", cmd>>]
    ELSE [stderr |-> Undefined, stdErr |-> <<"stdErr of ", cmd>>,
          message |-> <<"GitError: ", cmd>>]

(***************************************************************************)
(* The git repository and the commands' effect on it.                      *)
(***************************************************************************)
TagNames(r) == [i \in 1..Len(r.tags) |-> r.tags[i].name]

HasTag(r, name) == \E i \in 1..Len(r.tags) : r.tags[i].name = name

\* whether the command can exit with 0: describe needs a tag, tag -a a new name
CanSucceed(cmd, r, version) ==
    CASE cmd = "describe" -> r.tags # <<>>
      [] cmd = "tag"      -> ~HasTag(r, tag(version))
      [] OTHER            -> TRUE

RepoAfter(cmd, r, version) ==
    CASE cmd = "add"    -> [r EXCEPT !.staged = TRUE]
      [] cmd = "commit" -> [r EXCEPT !.staged = FALSE,
                                     !.commits = Append(@, commitMessage(version))]
      [] cmd = "tag"    -> [r EXCEPT !.tags =
                               Append(@, [name |-> tag(version),
                                          msg |-> commitMessage(version)])]
      [] cmd = "push"   -> [r EXCEPT !.pushed = TagNames(r)]
      [] OTHER          -> r

\* stdout of git describe --tags --abbrev=0
DescribeOutput(r) == r.tags[Len(r.tags)].name \o <<"\n">>

(***************************************************************************)
(* The part of the state a synchronous stretch of code works on.           *)
(***************************************************************************)
Ctx(p) == [lock |-> lock, GitStrategy |-> GitStrategy, guard |-> guard[p],
           cmds |-> cmds[p], notes |-> notes[p]]

Commit(p, c) ==
    /\ lock' = c.lock
    /\ GitStrategy' = c.GitStrategy
    /\ guard' = Upd(guard, p, c.guard)
    /\ cmds' = Upd(cmds, p, c.cmds)
    /\ notes' = Upd(notes, p, c.notes)

\* removeGitLockFile(cwd), called by fn
CallRemoveLock(c, fn, uf) ==
    [c EXCEPT !.lock = removeGitLockFile(c.lock, uf),
              !.guard = Append(@, [fn |-> fn, before |-> c.lock,
                                   failed |-> c.lock /\ uf,
                                   after |-> removeGitLockFile(c.lock, uf)])]

\* const Strategy = getGitStrategy()
CallGetStrategy(c) ==
    [c EXCEPT !.GitStrategy = getGitStrategy(c.GitStrategy, githubLoaded)]

Backend(c) == IF c.GitStrategy # "null" THEN "strategy" ELSE "exec"

\* fn starts command cmd with backend be
StartCmd(c, fn, cmd, be, x) ==
    [c EXCEPT !.cmds = Append(@, [fn |-> fn, cmd |-> cmd, be |-> be,
                                  args |-> Argv(cmd, be, x),
                                  lock |-> c.lock, res |-> "run"])]

\* the command the invocation awaits has exited
Finish(c, ok) ==
    [c EXCEPT !.cmds[Len(c.cmds)].res = IF ok THEN "ok" ELSE "fail"]

\* atom.notifications.add<Level>(title, {detail})
Notify(c, level, title, detail) ==
    [c EXCEPT !.notes = Append(@, [level |-> level, title |-> title,
                                   detail |-> detail])]

\* hasChangesSinceLastTag up to its first await
EnterDetect(c, uf) ==
    LET c1 == CallGetStrategy(CallRemoveLock(c, "hasChangesSinceLastTag", uf))
    IN  StartCmd(c1, "hasChangesSinceLastTag", "describe", Backend(c1), <<>>)

\* gitPrepare up to its first await
EnterGitPrepare(c, uf, version) ==
    LET c1 == CallGetStrategy(CallRemoveLock(c, "gitPrepare", uf))
    IN  StartCmd(c1, "gitPrepare", "add", Backend(c1), version)

\* gitPush up to its first await
EnterGitPush(c, uf) ==
    LET c1 == CallGetStrategy(CallRemoveLock(c, "gitPush", uf))
    IN  StartCmd(c1, "gitPush", "gitpush", Backend(c1), <<>>)

\* ppmPublish from the lock removal to its await of ppm publish
EnterPpm(c, uf, m) ==
    LET c1 == CallRemoveLock(c, "ppmPublish", uf)
        c2 == Notify(c1, "info",
                     <<"PPM Publish: publishing ", pkgName, " as ">> \o m \o <<"...">>,
                     Undefined)
    IN  StartCmd(c2, "ppmPublish", "ppm", "exec", m)

(***************************************************************************)
(* Initial state: nothing invoked yet.                                     *)
(***************************************************************************)
Init ==
    /\ manifest \in InitManifests
    /\ repo \in {EmptyRepo, TaggedRepo}
    /\ lock \in BOOLEAN
    /\ githubLoaded \in BOOLEAN
    /\ GitStrategy = "null"
    /\ invocations = 0
    /\ pc = [p \in Procs |-> "idle"]
    /\ op = [p \in Procs |-> "none"]
    /\ mode = [p \in Procs |-> Undefined]
    /\ lastTag = [p \in Procs |-> Undefined]
    /\ diff = [p \in Procs |-> Undefined]
    /\ hasChanges = [p \in Procs |-> "undefined"]
    /\ data = [p \in Procs |-> <<>>]
    /\ oldVersion = [p \in Procs |-> Undefined]
    /\ newVersion = [p \in Procs |-> Undefined]
    /\ mode0 = [p \in Procs |-> Undefined]
    /\ manifest0 = [p \in Procs |-> MissingFile]
    /\ cmds = [p \in Procs |-> <<>>]
    /\ guard = [p \in Procs |-> <<>>]
    /\ notes = [p \in Procs |-> <<>>]

Resting(p) == pc[p] \in {"idle", "done"}

\* no invocation is in flight
Quiescent == \A p \in Procs : Resting(p)

(***************************************************************************)
(* publish / ppmPublish after the gate: publish starts readFile, ppmPublish*)
(* removes the lock, announces and runs ppm publish.                       *)
(***************************************************************************)
Start(p, o, m, c, uf) ==
    IF o = "publish"
    THEN /\ pc' = Upd(pc, p, "read")
         /\ Commit(p, StartCmd(c, "publish", "readFile", "fs", <<>>))
    ELSE pc' = Upd(pc, p, "ppm") /\ Commit(p, EnterPpm(c, uf, m))

SkipTitle(o) ==
    IF o = "publish"
    THEN <<"Package Publish: ", pkgName, " has no changes since last tag">>
    ELSE <<"PPM Publish: ", pkgName, " has no changes since last tag">>

\* const hasChanges = await this.hasChangesSinceLastTag(dirPath); and the
\* statements up to the next await
Gate(p, hc, c, uf) ==
    /\ hasChanges' = Upd(hasChanges, p, hc)
    /\ IF GateSkips(hc)
       THEN /\ mode' = mode
            /\ pc' = Upd(pc, p, "done")
            /\ Commit(p, Notify(c, "info", SkipTitle(op[p]), Undefined))
       ELSE /\ mode' = Upd(mode, p, SliceIf(mode[p]))
            /\ Start(p, op[p], SliceIf(mode[p]), c, uf)

(***************************************************************************)
(* A command handler calls publish(dirPath, m) or ppmPublish(dirPath, m);  *)
(* the call runs to its first await.                                       *)
(***************************************************************************)
Call(p, o, m) ==
    /\ Resting(p)
    /\ invocations' = invocations + 1
    /\ op' = Upd(op, p, o)
    /\ mode0' = Upd(mode0, p, m)
    /\ manifest0' = Upd(manifest0, p, manifest)
    /\ lastTag' = Upd(lastTag, p, Undefined)
    /\ diff' = Upd(diff, p, Undefined)
    /\ data' = Upd(data, p, <<>>)
    /\ oldVersion' = Upd(oldVersion, p, Undefined)
    /\ newVersion' = Upd(newVersion, p, Undefined)
    /\ \E uf \in UnlinkOutcomes :
         LET c == [lock |-> lock, GitStrategy |-> GitStrategy, guard |-> <<>>,
                   cmds |-> <<>>, notes |-> <<>>]
         IN  IF EndsWithIf(m)
             THEN /\ mode' = Upd(mode, p, m)
                  /\ hasChanges' = Upd(hasChanges, p, "undefined")
                  /\ pc' = Upd(pc, p, "describe")
                  /\ Commit(p, EnterDetect(c, uf))
             ELSE /\ mode' = Upd(mode, p, m)
                  /\ hasChanges' = Upd(hasChanges, p, "undefined")
                  /\ Start(p, o, m, c, uf)
    /\ UNCHANGED <<manifest, repo, githubLoaded>>

\* a call in the lowest slot at rest, up to MaxInvocations calls in all
Invoke(p, o, m) ==
    /\ \A q \in Procs : q < p => ~Resting(q)
    /\ invocations < MaxInvocations
    /\ Call(p, o, m)

(***************************************************************************)
(* hasChangesSinceLastTag                                                  *)
(***************************************************************************)
\* git describe has exited
DescribeDone(p) ==
    /\ pc[p] = "describe"
    /\ \E ok \in {b \in BOOLEAN : b => CanSucceed("describe", repo, <<>>)},
          uf \in UnlinkOutcomes :
         LET c  == Finish(Ctx(p), ok)
             be == c.cmds[Len(c.cmds)].be
             lt == IF be = "strategy" THEN Trim(DescribeOutput(repo))
                                      ELSE DescribeOutput(repo)
         IN  IF detectTry(ok)
             THEN /\ lastTag' = Upd(lastTag, p, IF ok THEN lt ELSE Undefined)
                  /\ pc' = Upd(pc, p, "diff")
                  /\ Commit(p, StartCmd(c, "hasChangesSinceLastTag", "diff", be,
                                        IF ok THEN lt ELSE Undefined))
                  /\ UNCHANGED <<mode, hasChanges>>
             ELSE /\ lastTag' = lastTag
                  /\ Gate(p, detectCatch, c, uf)
    /\ UNCHANGED <<manifest, repo, githubLoaded, invocations, op, diff, data,
                   oldVersion, newVersion, mode0, manifest0>>

\* git diff has exited
DiffDone(p) ==
    /\ pc[p] = "diff"
    /\ \E ok \in BOOLEAN, d \in DiffOutputs, uf \in UnlinkOutcomes :
         LET c == Finish(Ctx(p), ok)
         IN  /\ diff' = Upd(diff, p, IF ok THEN d ELSE Undefined)
             /\ Gate(p, IF detectTry(ok) THEN DiffHasChanges(IF ok THEN d ELSE <<>>)
                                         ELSE detectCatch, c, uf)
    /\ UNCHANGED <<manifest, repo, githubLoaded, invocations, op, lastTag, data,
                   oldVersion, newVersion, mode0, manifest0>>

(***************************************************************************)
(* publish                                                                 *)
(***************************************************************************)
\* a data.version = newVersion that rebuilds the object from the version alone
SetVersionOnly(obj, v) == [k \in {"version"} |-> v]

\* data.version = newVersion
SetVersion(obj, v) ==
    [k \in DOMAIN obj \cup {"version"} |-> IF k = "version" THEN v ELSE obj[k]]

\* data.version
GetVersion(obj) == IF "version" \in DOMAIN obj THEN obj["version"] ELSE Undefined

\* what readFile, JSON.parse and increaseVersionNumber do on the file f:
\* "ok", or the message of the error thrown
ReadOutcome(f) ==
    IF f.kind = "missing" THEN <<"ENOENT: no such file or directory">>
    ELSE IF f.kind = "garbled" THEN <<"Unexpected token in JSON">>
    ELSE IF GetVersion(f.obj) = Undefined
    THEN <<"Cannot read properties of undefined (reading 'split')">>
    ELSE <<"ok">>

\* readFile has settled; parse, bump and start writeFile
ReadDone(p) ==
    /\ pc[p] = "read"
    /\ LET out == ReadOutcome(manifest)
           old == GetVersion(manifest.obj)
           new == increaseVersionNumber(old, mode[p])
           c   == Finish(Ctx(p), manifest.kind # "missing")
       IN  IF publishTry(out = <<"ok">>)
           THEN /\ oldVersion' = Upd(oldVersion, p, old)
                /\ newVersion' = Upd(newVersion, p, new)
                /\ data' = Upd(data, p, SetVersion(manifest.obj, new))
                /\ pc' = Upd(pc, p, "write")
                /\ Commit(p, StartCmd(c, "publish", "writeFile", "fs", <<>>))
           ELSE /\ pc' = Upd(pc, p, afterCatch)
                /\ Commit(p, Notify(c, "error", <<"Package Publish: failed">>, out))
                /\ UNCHANGED <<oldVersion, newVersion, data>>
    /\ UNCHANGED <<manifest, repo, githubLoaded, invocations, op, mode, lastTag,
                   diff, hasChanges, mode0, manifest0>>

\* writeFile has settled; announce the new version and enter gitPrepare
WriteDone(p) ==
    /\ pc[p] = "write"
    /\ \E ok \in BOOLEAN, uf \in UnlinkOutcomes :
         IF publishTry(ok)
         THEN /\ manifest' = IF ok THEN JsonFile(data[p]) ELSE manifest
              /\ pc' = Upd(pc, p, "add")
              /\ Commit(p, EnterGitPrepare(
                     Notify(Finish(Ctx(p), ok), "info",
                            <<"Package Publish: version updated from v">>
                                \o oldVersion[p] \o <<" to v">> \o newVersion[p],
                            Undefined),
                     uf, newVersion[p]))
         ELSE /\ manifest' \in {manifest, GarbledFile}
              /\ pc' = Upd(pc, p, afterCatch)
              /\ Commit(p, Notify(Finish(Ctx(p), ok), "error",
                                  <<"Package Publish: failed">>,
                                  <<"EACCES: permission denied">>))
    /\ UNCHANGED <<repo, githubLoaded, invocations, op, mode, lastTag, diff,
                   hasChanges, data, oldVersion, newVersion, mode0, manifest0>>

(***************************************************************************)
(* gitPrepare                                                              *)
(***************************************************************************)
\* a catch block that puts the manifest back as the invocation found it
gitPrepareCatchRestores(file, before) == before

\* package.json after the catch block of gitPrepare, which only notifies: the
\* file is as the failed sub-step found it
gitPrepareCatch(file, before) == file

\* err.stderr || err.stdErr || err.message
ErrDetail(err) == Or3(err.stderr, err.stdErr, err.message)

\* the sub-step cmd of gitPrepare has exited
StepDone(p, cmd) ==
    /\ pc[p] = cmd
    /\ \E ok \in {b \in BOOLEAN : b => CanSucceed(cmd, repo, newVersion[p])} :
         LET c  == Finish(Ctx(p), ok)
             be == c.cmds[Len(c.cmds)].be
         IN  IF gitPrepareTry(ok)
             THEN /\ repo' = IF ok THEN RepoAfter(cmd, repo, newVersion[p]) ELSE repo
                  /\ manifest' = manifest
                  /\ IF NextStep(cmd) = "none"
                     THEN /\ pc' = Upd(pc, p, "done")
                          /\ Commit(p, Notify(c, "success",
                                 <<"Package Publish: ", pkgName, " v">>
                                     \o newVersion[p] \o <<" published">>,
                                 Undefined))
                     ELSE /\ pc' = Upd(pc, p, NextStep(cmd))
                          /\ Commit(p, StartCmd(c, "gitPrepare", NextStep(cmd), be,
                                                newVersion[p]))
             ELSE /\ repo' = repo
                  /\ manifest' = gitPrepareCatch(manifest, manifest0[p])
                  /\ pc' = Upd(pc, p, afterCatch)
                  /\ Commit(p, Notify(c, "error", <<"Package Publish: failed">>,
                                      ErrDetail(ErrOfCmd(be, cmd))))
    /\ UNCHANGED <<githubLoaded, invocations, op, mode, lastTag, diff,
                   hasChanges, data, oldVersion, newVersion, mode0, manifest0>>

AddDone(p) == StepDone(p, "add")
CommitDone(p) == StepDone(p, "commit")
TagDone(p) == StepDone(p, "tag")
PushDone(p) == StepDone(p, "push")

(***************************************************************************)
(* ppmPublish and gitPush                                                  *)
(***************************************************************************)
\* ppm publish has exited
PpmDone(p) ==
    /\ pc[p] = "ppm"
    /\ \E ok \in BOOLEAN, uf \in UnlinkOutcomes :
         LET c == Finish(Ctx(p), ok)
         IN  IF ppmPublishTry(ok)
             THEN /\ pc' = Upd(pc, p, "gitpush")
                  /\ Commit(p, EnterGitPush(
                         Notify(c, "success",
                                <<"PPM Publish: ", pkgName, " published">>,
                                <<"stdout of ppm">>), uf))
             ELSE /\ pc' = Upd(pc, p, afterCatch)
                  /\ Commit(p, Notify(c, "error",
                         <<"PPM Publish: failed to publish ", pkgName>>,
                         ErrDetail(ErrOfCmd("exec", "ppm"))))
    /\ UNCHANGED <<manifest, repo, githubLoaded, invocations, op, mode, lastTag,
                   diff, hasChanges, data, oldVersion, newVersion, mode0, manifest0>>

\* git push origin has exited
GitPushDone(p) ==
    /\ pc[p] = "gitpush"
    /\ \E ok \in BOOLEAN :
         LET c  == Finish(Ctx(p), ok)
             be == c.cmds[Len(c.cmds)].be
         IN  /\ pc' = Upd(pc, p, IF gitPushTry(ok) THEN "done" ELSE afterCatch)
             /\ IF gitPushTry(ok)
                THEN Commit(p, Notify(c, "success",
                         <<"Package Publish: ", pkgName, " pushed to origin">>,
                         Undefined))
                ELSE Commit(p, Notify(c, "error",
                         <<"Package Publish: failed to push ", pkgName>>,
                         ErrDetail(ErrOfCmd(be, "gitpush"))))
    /\ UNCHANGED <<manifest, repo, githubLoaded, invocations, op, mode, lastTag,
                   diff, hasChanges, data, oldVersion, newVersion, mode0, manifest0>>

(***************************************************************************)
(* The host: the github package gets loaded.                               *)
(***************************************************************************)
LoadGithub ==
    /\ ~githubLoaded
    /\ githubLoaded' = TRUE
    /\ UNCHANGED <<manifest, repo, lock, GitStrategy, invocations, locals, observers>>

(***************************************************************************)
(* Specification: the commands are invoked one after the other.            *)
(***************************************************************************)
Step(p) ==
    \/ DescribeDone(p)
    \/ DiffDone(p)
    \/ ReadDone(p)
    \/ WriteDone(p)
    \/ AddDone(p)
    \/ CommitDone(p)
    \/ TagDone(p)
    \/ PushDone(p)
    \/ PpmDone(p)
    \/ GitPushDone(p)

Next ==
    \/ \E p \in Procs, o \in Ops, m \in Modes : Quiescent /\ Invoke(p, o, m)
    \/ \E p \in Procs : Step(p)
    \/ LoadGithub

Spec == Init /\ [][Next]_vars

(***************************************************************************)
(* Specification of the version bumper alone: increaseVersionNumber is     *)
(* applied to every version a.b.c with components from BumpComps, in every *)
(* mode, and again to its own results.                                     *)
(***************************************************************************)
BumpComps == (0..MaxComp) \cup {9, 99}

BaseModes == { <<"major">>, <<"minor">>, <<"patch">> }

InitBump ==
    /\ manifest = MissingFile
    /\ repo = EmptyRepo
    /\ lock = FALSE
    /\ githubLoaded = FALSE
    /\ GitStrategy = "null"
    /\ invocations = 0
    /\ pc = [p \in Procs |-> IF p = 1 THEN "bump" ELSE "idle"]
    /\ op = [p \in Procs |-> "none"]
    /\ \E m \in BaseModes : mode = [p \in Procs |-> IF p = 1 THEN m ELSE Undefined]
    /\ lastTag = [p \in Procs |-> Undefined]
    /\ diff = [p \in Procs |-> Undefined]
    /\ hasChanges = [p \in Procs |-> "undefined"]
    /\ data = [p \in Procs |-> <<>>]
    /\ \E a \in BumpComps, b \in BumpComps, c \in BumpComps :
         oldVersion = [p \in Procs |-> IF p = 1 THEN VersionStr(a, b, c) ELSE Undefined]
    /\ newVersion = [p \in Procs |-> Undefined]
    /\ mode0 = [p \in Procs |-> Undefined]
    /\ manifest0 = [p \in Procs |-> MissingFile]
    /\ cmds = [p \in Procs |-> <<>>]
    /\ guard = [p \in Procs |-> <<>>]
    /\ notes = [p \in Procs |-> <<>>]

\* const newVersion = this.increaseVersionNumber(oldVersion, mode)
Bump(p) ==
    /\ pc[p] = "bump"
    /\ newVersion' = Upd(newVersion, p, increaseVersionNumber(oldVersion[p], mode[p]))
    /\ pc' = Upd(pc, p, "bumped")
    /\ UNCHANGED <<shared, op, mode, lastTag, diff, hasChanges, data, oldVersion,
                   observers>>

\* the result is the next call's version
Rebump(p, m) ==
    /\ pc[p] = "bumped"
    /\ invocations < MaxInvocations
    /\ invocations' = invocations + 1
    /\ oldVersion' = Upd(oldVersion, p, newVersion[p])
    /\ newVersion' = Upd(newVersion, p, Undefined)
    /\ mode' = Upd(mode, p, m)
    /\ pc' = Upd(pc, p, "bump")
    /\ UNCHANGED <<manifest, repo, lock, githubLoaded, GitStrategy, op, lastTag,
                   diff, hasChanges, data, observers>>

NextBump ==
    \/ \E p \in Procs : Bump(p)
    \/ \E p \in Procs, m \in BaseModes : Rebump(p, m)

SpecBump == InitBump /\ [][NextBump]_vars

(***************************************************************************)
(* Reference semantics of a version bump, on triples of numbers.           *)
(***************************************************************************)
\* the components of "a.b.c"
Triple(v) == LET s == Split(v, ".")
             IN  <<ParseInt(At(s, 1)), ParseInt(At(s, 2)), ParseInt(At(s, 3))>>

\* v is the decimal notation of a triple of non-negative integers
ValidVersion(v) ==
    LET t == Triple(v)
    IN  /\ Len(Split(v, ".")) = 3
        /\ t[1] >= 0 /\ t[2] >= 0 /\ t[3] >= 0
        /\ v = VersionStr(t[1], t[2], t[3])

\* (a+1).0.0, a.(b+1).0, a.b.(c+1)
RefBump(t, m) ==
    IF m = <<"major">> THEN <<t[1] + 1, 0, 0>>
    ELSE IF m = <<"minor">> THEN <<t[1], t[2] + 1, 0>>
    ELSE <<t[1], t[2], t[3] + 1>>

RefBumpStr(v, m) ==
    LET t == RefBump(Triple(v), m) IN VersionStr(t[1], t[2], t[3])

\* C1: for every version a.b.c of non-negative integers and every mode,
\* increaseVersionNumber returns (a+1).0.0 for major, a.(b+1).0 for minor and
\* a.b.(c+1) for patch
C1_BumpMatchesReference ==
    \A p \in Procs :
        pc[p] = "bumped" /\ ValidVersion(oldVersion[p]) /\ mode[p] \in BaseModes
            => newVersion[p] = RefBumpStr(oldVersion[p], mode[p])

\* a minor bump that carries (9 -> 10) and resets a non-zero patch has run
C1_Witness ==
    \E p \in Procs :
        /\ pc[p] = "bumped"
        /\ mode[p] = <<"minor">>
        /\ oldVersion[p] = <<"1", ".", "9", ".", "9", "9">>
        /\ newVersion[p] = <<"1", ".", "1", "0", ".", "0">>

(***************************************************************************)
(* Vocabulary of the properties.                                           *)
(***************************************************************************)
\* the commands that change the repository or the remote
VcsWrites == {"add", "commit", "tag", "push", "gitpush"}

\* invocation p has started a command named in names
Ran(p, names) == \E i \in 1..Len(cmds[p]) : cmds[p][i].cmd \in names

\* invocation p has started command cmd and it ended with res
Ended(p, cmd, res) ==
    \E i \in 1..Len(cmds[p]) : cmds[p][i].cmd = cmd /\ cmds[p][i].res = res

\* the entry of command cmd in the log of p
Entry(p, cmd) == cmds[p][CHOOSE i \in 1..Len(cmds[p]) : cmds[p][i].cmd = cmd]

\* number of entries of command cmd in the log of p
Count(p, cmd) == Cardinality({i \in 1..Len(cmds[p]) : cmds[p][i].cmd = cmd})

\* the mode without the conditional suffix
Effective(m) == IF m[Len(m)] = "-if" THEN <<m[1]>> ELSE m

HasNote(p, level, title) ==
    \E i \in 1..Len(notes[p]) :
        notes[p][i].level = level /\ notes[p][i].title = title

LastNote(p) == notes[p][Len(notes[p])]

NotesOf(p, level) == {i \in 1..Len(notes[p]) : notes[p][i].level = level}

(***************************************************************************)
(* C2                                                                      *)
(***************************************************************************)
\* C2: when publish or ppmPublish is called with a mode ending in "-if" and
\* the change detector returns false, the invocation ends Skipped with one
\* info notification, the manifest is untouched, and neither a VCS command
\* (add, commit, tag, push) nor ppm publish is started
C2_GateSkips ==
    \A p \in Procs :
        EndsWithIf(mode0[p]) /\ hasChanges[p] = "false"
            => /\ pc[p] = "done"
               /\ notes[p] =
                    << [level |-> "info",
                        title |-> IF op[p] = "publish"
                                  THEN <<"Package Publish: ", "pkg",
                                         " has no changes since last tag">>
                                  ELSE <<"PPM Publish: ", "pkg",
                                         " has no changes since last tag">>,
                        detail |-> Undefined] >>
               /\ manifest = manifest0[p]
               /\ ~Ran(p, VcsWrites \cup {"ppm", "readFile", "writeFile"})

\* publish was called with patch-if on a manifest with a version, describe and
\* diff succeeded and the diff was blank
C2_Witness ==
    \E p \in Procs :
        /\ mode0[p] = <<"patch", "-if">>
        /\ op[p] = "publish"
        /\ hasChanges[p] = "false"
        /\ manifest.kind = "json"
        /\ GetVersion(manifest.obj) # Undefined
        /\ Ended(p, "diff", "ok")

(***************************************************************************)
(* C3                                                                      *)
(***************************************************************************)
\* C3: in gitPrepare the sub-steps run in the order add, commit, tag, push:
\* each one is started only when the one before it has ended with success,
\* and nothing is started while a command runs, with either backend
C3_StrictOrder ==
    \A p \in Procs : \A i \in 1..Len(cmds[p]) :
        LET e == cmds[p][i]
            prev == cmds[p][i - 1]
        IN  /\ i < Len(cmds[p]) => e.res # "run"
            /\ e.cmd = "add" => i > 1 /\ prev.cmd = "writeFile" /\ prev.res = "ok"
            /\ e.cmd = "commit" => i > 1 /\ prev.cmd = "add" /\ prev.res = "ok"
            /\ e.cmd = "tag" => i > 1 /\ prev.cmd = "commit" /\ prev.res = "ok"
            /\ e.cmd = "push" => i > 1 /\ prev.cmd = "tag" /\ prev.res = "ok"
            /\ e.cmd \in {"commit", "tag", "push"} => e.be = prev.be

\* the four sub-steps have all run, by the in-process strategy
C3_Witness ==
    \E p \in Procs :
        /\ Ended(p, "push", "ok")
        /\ Entry(p, "add").be = "strategy"
        /\ Entry(p, "push").be = "strategy"

(***************************************************************************)
(* C4                                                                      *)
(***************************************************************************)
\* C4: when a sub-step of gitPrepare fails, no further command is started in
\* the invocation, no sub-step is run twice, an error notification is
\* emitted and no success notification is
C4_FailFast ==
    \A p \in Procs : \A i \in 1..Len(cmds[p]) :
        cmds[p][i].fn = "gitPrepare" /\ cmds[p][i].res = "fail"
            => /\ i = Len(cmds[p])
               /\ pc[p] = "done"
               /\ \A c \in {"add", "commit", "tag", "push"} : Count(p, c) <= 1
               /\ LastNote(p).level = "error"
               /\ LastNote(p).title = <<"Package Publish: failed">>
               /\ Cardinality(NotesOf(p, "error")) = 1
               /\ NotesOf(p, "success") = {}

\* the commit succeeded and the tag failed
C4_Witness ==
    \E p \in Procs :
        /\ Ended(p, "commit", "ok")
        /\ Ended(p, "tag", "fail")
        /\ pc[p] = "done"

(***************************************************************************)
(* C5                                                                      *)
(***************************************************************************)
\* the commit and tag message of version v, as the documentation gives it
ReleaseMessage(v) == <<"Prepare v">> \o v \o <<" release">>

\* C5: when the manifest write and the four sub-steps succeed, the outcome is
\* the success notification of newVersion = bump(oldVersion, mode), the
\* manifest holds newVersion, the tag is "v" + newVersion, the commit and tag
\* message is "Prepare v" + newVersion + " release"; and the success
\* notification is emitted only once the push has succeeded
C5_SuccessScenario ==
    \A p \in Procs :
        LET old == GetVersion(manifest0[p].obj)
            nv  == RefBumpStr(old, Effective(mode0[p]))
            msg == ReleaseMessage(nv)
            published == <<"Package Publish: ", "pkg", " v">> \o nv \o <<" published">>
        IN  /\ pc[p] = "done" /\ op[p] = "publish" /\ Ended(p, "writeFile", "ok")
               /\ Ended(p, "add", "ok") /\ Ended(p, "commit", "ok")
               /\ Ended(p, "tag", "ok") /\ Ended(p, "push", "ok")
                => /\ ValidVersion(old)
                   /\ oldVersion[p] = old
                   /\ newVersion[p] = nv
                   /\ manifest.kind = "json"
                   /\ GetVersion(manifest.obj) = nv
                   /\ LastNote(p) = [level |-> "success", title |-> published,
                                     detail |-> Undefined]
                   /\ Cardinality(NotesOf(p, "success")) = 1
                   /\ NotesOf(p, "error") = {}
                   /\ repo.tags[Len(repo.tags)] = [name |-> <<"v">> \o nv, msg |-> msg]
                   /\ repo.commits[Len(repo.commits)] = msg
                   /\ repo.pushed[Len(repo.pushed)] = <<"v">> \o nv
                   /\ Entry(p, "commit").args =
                        IF Entry(p, "commit").be = "strategy"
                        THEN << <<"commit">>, <<"--all">>, <<"-m">>, msg >>
                        ELSE << <<"git commit --all -m \"">> \o msg \o <<"\"">> >>
                   /\ Entry(p, "tag").args =
                        IF Entry(p, "tag").be = "strategy"
                        THEN << <<"tag">>, <<"-a">>, <<"v">> \o nv, <<"-m">>, msg >>
                        ELSE << <<"git tag -a ", "v">> \o nv \o <<" -m \"">> \o msg
                                  \o <<"\"">> >>
            /\ op[p] = "publish" /\ NotesOf(p, "success") # {}
                => Ended(p, "push", "ok")

\* a minor-if release of 0.9.0, which carries to 0.10.0, done by subprocesses
C5_Witness ==
    \E p \in Procs :
        /\ pc[p] = "done"
        /\ mode0[p] = <<"minor", "-if">>
        /\ oldVersion[p] = <<"0", ".", "9", ".", "0">>
        /\ newVersion[p] = <<"0", ".", "1", "0", ".", "0">>
        /\ Ended(p, "push", "ok")
        /\ Entry(p, "tag").be = "exec"
        /\ HasTag(repo, <<"v", "0", ".", "1", "0", ".", "0">>)

(***************************************************************************)
(* C6                                                                      *)
(***************************************************************************)
\* C6: when ppm publish fails, the registry error is reported and a push to
\* the remote is started afterwards
C6_RecoveryPush ==
    \A p \in Procs :
        pc[p] = "done" /\ Ended(p, "ppm", "fail")
            => /\ HasNote(p, "error", <<"PPM Publish: failed to publish ", "pkg">>)
               /\ \E i \in 1..Len(cmds[p]), j \in 1..Len(cmds[p]) :
                    /\ i < j
                    /\ cmds[p][i].cmd = "ppm"
                    /\ cmds[p][j].cmd \in {"gitpush", "push"}

(***************************************************************************)
(* C7                                                                      *)
(***************************************************************************)
\* C7: hasChangesSinceLastTag returns true when no tag exists and when the
\* describe or the diff fails, with either backend, and its caller goes on
\* (the error is not propagated)
C7_FailOpen ==
    \A p \in Procs :
        /\ Ended(p, "describe", "fail") \/ Ended(p, "diff", "fail")
            => /\ hasChanges[p] = "true"
               /\ mode[p] = Effective(mode0[p])
               /\ Ran(p, {"readFile", "ppm"})
        /\ hasChanges[p] # "undefined" /\ repo.tags = <<>>
            => hasChanges[p] = "true" /\ Ended(p, "describe", "fail")

\* no tag exists, the in-process strategy ran describe, and publish went on
\* to read the manifest
C7_Witness ==
    \E p \in Procs :
        /\ repo.tags = <<>>
        /\ Ended(p, "describe", "fail")
        /\ Entry(p, "describe").be = "strategy"
        /\ hasChanges[p] = "true"
        /\ pc[p] = "read"

(***************************************************************************)
(* C8                                                                      *)
(***************************************************************************)
\* C8: when describe and diff succeed, hasChangesSinceLastTag returns false
\* if the output of the diff between the last tag and HEAD is blank and true
\* otherwise, with either backend
C8_DiffDecides ==
    \A p \in Procs :
        Ended(p, "describe", "ok") /\ Ended(p, "diff", "ok")
            => LET t == Trim(lastTag[p])
                   e == Entry(p, "diff")
               IN  /\ hasChanges[p] =
                        IF \A i \in 1..Len(diff[p]) : diff[p][i] \in {" ", "\n"}
                        THEN "false" ELSE "true"
                   /\ HasTag(repo, t)
                   /\ e.args = IF e.be = "strategy"
                               THEN << <<"diff">>, t \o <<"..HEAD">>, <<"--stat">> >>
                               ELSE << <<"git diff ">> \o t \o <<"..HEAD --stat">> >>

\* a diff of blanks only, got from a subprocess
C8_Witness ==
    \E p \in Procs :
        /\ Ended(p, "diff", "ok")
        /\ Entry(p, "diff").be = "exec"
        /\ diff[p] = <<" ", "\n">>
        /\ hasChanges[p] = "false"

(***************************************************************************)
(* C9                                                                      *)
(***************************************************************************)
\* C9: when the manifest cannot be read or parsed, or its write fails, publish
\* stops: no add, commit, tag or push is started, an error notification is
\* emitted, and after a read or parse failure the manifest is not written
C9_ManifestFailureStops ==
    \A p \in Procs :
        /\ ( /\ op[p] = "publish"
             /\ Ran(p, {"readFile"}) /\ ~Ended(p, "readFile", "run")
             /\ ReadOutcome(manifest0[p]) # <<"ok">> )
            => /\ pc[p] = "done"
               /\ ~Ran(p, VcsWrites \cup {"writeFile"})
               /\ manifest = manifest0[p]
               /\ LastNote(p).level = "error"
               /\ LastNote(p).title = <<"Package Publish: failed">>
               /\ NotesOf(p, "success") = {}
        /\ Ended(p, "writeFile", "fail")
            => /\ pc[p] = "done"
               /\ ~Ran(p, VcsWrites)
               /\ LastNote(p).level = "error"
               /\ LastNote(p).title = <<"Package Publish: failed">>
               /\ NotesOf(p, "success") = {}

\* a conditional publish passed the gate and its write failed, leaving a
\* garbled file
C9_Witness ==
    \E p \in Procs :
        /\ Ended(p, "diff", "ok")
        /\ Ended(p, "writeFile", "fail")
        /\ manifest0[p].kind = "json"
        /\ manifest = GarbledFile
        /\ pc[p] = "done"

(***************************************************************************)
(* C10                                                                     *)
(***************************************************************************)
VcsFns == {"hasChangesSinceLastTag", "gitPrepare", "gitPush", "ppmPublish"}

\* entry i of the log of p is the first command of its operation
FirstOfFn(p, i) ==
    /\ cmds[p][i].fn \in VcsFns
    /\ i = 1 \/ cmds[p][i - 1].fn # cmds[p][i].fn

\* C10 as stated: the lock is absent when the first command of an operation
\* that runs VCS commands is started
C10_LockAbsent ==
    \A p \in Procs : \A i \in 1..Len(cmds[p]) :
        FirstOfFn(p, i) => ~cmds[p][i].lock

\* C10, amended: every operation that runs VCS commands calls
\* removeGitLockFile before its first command, and the lock is absent when
\* that command is started unless the deletion failed
C10_LockGuard ==
    \A p \in Procs : \A i \in 1..Len(cmds[p]) :
        FirstOfFn(p, i)
            => /\ Cardinality({j \in 1..Len(guard[p]) :
                                  guard[p][j].fn = cmds[p][i].fn}) = 1
               /\ \E j \in 1..Len(guard[p]) :
                    /\ guard[p][j].fn = cmds[p][i].fn
                    /\ guard[p][j].failed \/ ~cmds[p][i].lock

\* gitPush found a lock that ppmPublish had failed to delete, and deleted it
C10_Witness ==
    \E p \in Procs : \E i \in 1..Len(cmds[p]), j \in 1..Len(guard[p]) :
        /\ FirstOfFn(p, i)
        /\ cmds[p][i].fn = "gitPush"
        /\ guard[p][j].fn = "gitPush"
        /\ guard[p][j].before
        /\ ~guard[p][j].failed
        /\ ~cmds[p][i].lock

(***************************************************************************)
(* C11                                                                     *)
(***************************************************************************)
\* the operations that run git through the strategy getGitStrategy returns
GitFns == {"hasChangesSinceLastTag", "gitPrepare", "gitPush"}

\* the step starts the first git command of an operation of p
StartsGitOp(p) ==
    LET n == Len(cmds'[p])
    IN  /\ cmds'[p] # cmds[p]
        /\ n >= 1
        /\ cmds'[p][n].res = "run"
        /\ cmds'[p][n].fn \in GitFns
        /\ n = 1 \/ cmds'[p][n - 1].fn # cmds'[p][n].fn

OutcomeNotes(p) ==
    {i \in 1..Len(notes[p]) :
        \/ notes[p][i].level \in {"success", "error"}
        \/ notes[p][i].level = "info" /\ notes[p][i].title = SkipTitle(op[p])}

\* C12 as stated: an invocation that has returned has emitted exactly one
\* outcome notification, and never both a success and an error
C12_OneOutcome ==
    \A p \in Procs :
        /\ pc[p] = "done" => Cardinality(OutcomeNotes(p)) = 1
        /\ NotesOf(p, "success") = {} \/ NotesOf(p, "error") = {}

\* C12, amended: publish emits exactly one outcome notification; ppmPublish
\* emits exactly one when it is skipped or ppm publish fails, and after a
\* successful ppm publish it emits its success and then the one outcome of
\* gitPush, a second success or an error; no invocation returns with none
C12_OutcomePerOperation ==
    \A p \in Procs :
        LET ppmOk == op[p] = "ppmPublish" /\ Ended(p, "ppm", "ok")
            n     == Len(notes[p])
        IN  /\ pc[p] = "done" /\ ~ppmOk
                => /\ Cardinality(OutcomeNotes(p)) = 1
                   /\ OutcomeNotes(p) = {n}
            /\ pc[p] = "done" /\ ppmOk
                => /\ OutcomeNotes(p) = {n - 1, n}
                   /\ notes[p][n - 1].level = "success"
                   /\ notes[p][n - 1].title = <<"PPM Publish: ", "pkg", " published">>
                   /\ notes[p][n].level =
                        IF Ended(p, "gitpush", "ok") THEN "success" ELSE "error"
            /\ ~ppmOk => NotesOf(p, "success") = {} \/ NotesOf(p, "error") = {}
            /\ pc[p] # "done" => Cardinality(OutcomeNotes(p)) <= 1

\* ppm publish succeeded and the push after it failed: a success and an error
C12_Witness ==
    \E p \in Procs :
        /\ pc[p] = "done"
        /\ Ended(p, "ppm", "ok")
        /\ Ended(p, "gitpush", "fail")
        /\ NotesOf(p, "success") # {}
        /\ NotesOf(p, "error") # {}

(***************************************************************************)
(* C13                                                                     *)
(***************************************************************************)
\* the tokens of a text
Tokens(s) == {s[i] : i \in 1..Len(s)}

\* the name the documentation gives the sub-step of a command
StageName(cmd) == IF cmd = "add" THEN "stage" ELSE cmd

\* C13: when a sub-step of gitPrepare fails, the error notification names the
\* failed sub-step in its title, carries the package name in its title or its
\* detail, and carries the diagnostic text of the command as its detail
C13_ErrorNamesStage ==
    \A p \in Procs : \A i \in 1..Len(cmds[p]) :
        cmds[p][i].fn = "gitPrepare" /\ cmds[p][i].res = "fail"
            => /\ LastNote(p).level = "error"
               /\ LastNote(p).detail = ErrDetail(ErrOfCmd(cmds[p][i].be, cmds[p][i].cmd))
               /\ pkgName \in Tokens(LastNote(p).title) \cup Tokens(LastNote(p).detail)
               /\ \E t \in Tokens(LastNote(p).title) :
                    t \in {cmds[p][i].cmd, StageName(cmds[p][i].cmd)}

(***************************************************************************)
(* C14                                                                     *)
(***************************************************************************)
\* object b has the fields of object a with their values, but for version
SameFrame(a, b) ==
    /\ DOMAIN b = DOMAIN a
    /\ \A k \in DOMAIN a \ {"version"} : b[k] = a[k]

\* C14: from the bump on, the object publish holds has every top-level field
\* of the manifest read, each but version with the value read and version
\* with the bumped value; after a successful write the file is that object
C14_FramePreserved ==
    \A p \in Procs :
        /\ newVersion[p] # Undefined
            => /\ manifest0[p].kind = "json"
               /\ SameFrame(manifest0[p].obj, data[p])
               /\ data[p]["version"] = newVersion[p]
               /\ manifest0[p].obj["version"] = oldVersion[p]
               /\ newVersion[p] # oldVersion[p]
        /\ Ended(p, "writeFile", "ok")
            => /\ manifest = JsonFile(data[p])
               /\ SameFrame(manifest0[p].obj, manifest.obj)
               /\ manifest.obj["version"] # manifest0[p].obj["version"]

\* a manifest with a name and a license was written with a new version
C14_Witness ==
    \E p \in Procs :
        /\ Ended(p, "writeFile", "ok")
        /\ manifest.kind = "json"
        /\ DOMAIN manifest.obj = {"name", "version", "license"}
        /\ manifest.obj["license"] = <<"MIT">>
        /\ manifest.obj["name"] = <<"pkg">>
        /\ manifest.obj["version"] = newVersion[p]
        /\ manifest0[p].obj["version"] = oldVersion[p]

(***************************************************************************)
(* C15                                                                     *)
(***************************************************************************)
\* the calls of hasChangesSinceLastTag p has made, by their lock removal
GateCalls(p) ==
    {j \in 1..Len(guard[p]) : guard[p][j].fn = "hasChangesSinceLastTag"}

\* C15: an invocation with a mode ending in "-if" runs the change detection
\* exactly once, and bumps or publishes with the mode without the suffix; an
\* invocation with a plain mode does not run the detection and uses the mode
\* as given
C15_GateOnceModeStripped ==
    \A p \in Procs :
        LET eff == Effective(mode0[p])
        IN  pc[p] # "idle" =>
            /\ eff \in BaseModes
            /\ EndsWithIf(mode0[p])
                => /\ Cardinality(GateCalls(p)) = 1
                   /\ Count(p, "describe") = 1
                   /\ Count(p, "diff") <= 1
                   /\ pc[p] \notin {"describe", "diff"}
                        => hasChanges[p] \in {"true", "false"}
            /\ ~EndsWithIf(mode0[p])
                => /\ GateCalls(p) = {}
                   /\ ~Ran(p, {"describe", "diff"})
                   /\ hasChanges[p] = "undefined"
            /\ newVersion[p] # Undefined
                => /\ mode[p] = eff
                   /\ newVersion[p] = RefBumpStr(oldVersion[p], eff)
            /\ Ran(p, {"ppm"})
                => /\ mode[p] = eff
                   /\ Entry(p, "ppm").args = << <<"ppm publish ">> \o eff >>

\* a conditional major publish to the registry ran "ppm publish major" after
\* one detection
C15_Witness ==
    \E p \in Procs :
        /\ op[p] = "ppmPublish"
        /\ mode0[p] = <<"major", "-if">>
        /\ Count(p, "describe") = 1
        /\ Ended(p, "ppm", "ok")
        /\ Entry(p, "ppm").args = << <<"ppm publish ", "major">> >>

(***************************************************************************)
(* C16                                                                     *)
(***************************************************************************)
\* the positions of an invocation that awaits a command or a file operation
Awaiting == {"describe", "diff", "read", "write", "add", "commit", "tag",
             "push", "ppm", "gitpush"}

\* what p awaits settles and p moves on to its next position; the steps that
\* do so are the steps of Step(p), which is enabled whenever p awaits
Settles(p) ==
    /\ pc[p] \in Awaiting
    /\ pc' \in {Upd(pc, p, s) : s \in (Awaiting \cup {"done"}) \ {pc[p]}}

\* every external command and file operation an invocation awaits returns or
\* fails in the end, and the event loop then runs the continuation
SpecLive == Init /\ [][Next]_vars /\ \A p \in Procs : WF_pc(Settles(p))

\* C16: an invocation is always idle, awaiting or returned, never ended by an
\* error thrown to its caller; one that has returned has emitted an outcome
\* notification; and every invocation that awaits returns in the end
C16_Terminates ==
    /\ [](\A p \in Procs : pc[p] \in {"idle", "done"} \cup Awaiting)
    /\ [](\A p \in Procs : pc[p] = "done" => OutcomeNotes(p) # {})
    /\ \A p \in Procs : (pc[p] \in Awaiting) ~> (pc[p] = "done")

\* an invocation returned after its read, a sub-step or its push had failed
C16_Witness ==
    \E p \in Procs :
        /\ pc[p] = "done"
        /\ \/ Ended(p, "readFile", "fail")
           \/ Ended(p, "commit", "fail")
           \/ Ended(p, "gitpush", "fail")
        /\ LastNote(p).level = "error"

(***************************************************************************)
(* C17                                                                     *)
(***************************************************************************)
\* each slot is called once, in turn, so that the log of an invocation stays
\* while the next one runs
FreshCall(p, o, m) ==
    /\ pc[p] = "idle"
    /\ \A q \in Procs : q < p => pc[q] # "idle"
    /\ Call(p, o, m)

\* the continuations of publish called with a plain mode
PublishStep(p) ==
    \/ ReadDone(p)
    \/ WriteDone(p)
    \/ AddDone(p)
    \/ CommitDone(p)
    \/ TagDone(p)
    \/ PushDone(p)

\* the user runs publish again once the run before has returned
NextRerun ==
    \/ \E p \in Procs, m \in BaseModes : Quiescent /\ FreshCall(p, "publish", m)
    \/ \E p \in Procs : PublishStep(p)
    \/ LoadGithub

SpecRerun == Init /\ [][NextRerun]_vars

\* a sub-step of gitPrepare of p has failed
PrepareFailed(p) ==
    \E i \in 1..Len(cmds[p]) : cmds[p][i].fn = "gitPrepare" /\ cmds[p][i].res = "fail"

\* C17: after a sub-step of gitPrepare has failed, package.json holds the
\* bumped version until a later run writes it, the sub-steps completed before
\* the failure stay in the repository (the staging until a later commit, the
\* commit and the tag for good), and the next run bumps from the bumped
\* version
C17_NoRollback ==
    \A p \in Procs :
        LET nv    == newVersion[p]
            later == {q \in Procs : q > p /\ pc[q] # "idle"}
        IN  PrepareFailed(p) =>
            /\ pc[p] = "done"
            /\ (\A q \in later : ~Ran(q, {"writeFile"}) \/ pc[q] = "write")
                => /\ manifest = JsonFile(data[p])
                   /\ GetVersion(manifest.obj) = nv
                   /\ nv = RefBumpStr(GetVersion(manifest0[p].obj), mode0[p])
            /\ Ended(p, "add", "ok") /\ Ended(p, "commit", "fail")
               /\ (\A q \in later : ~Ran(q, {"add"}) \/ pc[q] = "add")
                => repo.staged
            /\ Ended(p, "commit", "ok")
                => \E i \in 1..Len(repo.commits) : repo.commits[i] = ReleaseMessage(nv)
            /\ Ended(p, "tag", "ok") => HasTag(repo, <<"v">> \o nv)
            /\ \A q \in later :
                 q = p + 1 /\ newVersion[q] # Undefined
                    => /\ oldVersion[q] = nv
                       /\ newVersion[q] = RefBumpStr(nv, mode0[q])
                       /\ newVersion[q] # nv

\* the commit of the first run failed after 0.9.0 had been bumped to 0.9.1,
\* and the second run released 0.9.2
C17_Witness ==
    /\ mode0[1] = <<"patch">>
    /\ oldVersion[1] = <<"0", ".", "9", ".", "0">>
    /\ Ended(1, "commit", "fail")
    /\ mode0[2] = <<"patch">>
    /\ newVersion[2] = <<"0", ".", "9", ".", "2">>
    /\ Ended(2, "push", "ok")
    /\ HasTag(repo, <<"v", "0", ".", "9", ".", "2">>)
    /\ ~HasTag(repo, <<"v", "0", ".", "9", ".", "1">>)

(***************************************************************************)
(* C18                                                                     *)
(***************************************************************************)
\* a handler that waits for each call to return before it makes the next
handlerAwaitsEach == TRUE

\* whether a command handler awaits the call it makes: the tree-view handler
\* calls fn for each selected path without await, and the handlers of two
\* commands run regardless of calls in flight
handlerAwaits == FALSE

\* the modes of the calls in flight together: enough for two calls to have the
\* same mode or different ones
ConcModes == { <<"minor">>, <<"patch">> }

\* a handler calls publish with a plain mode, whatever is in flight
ConcCall(p, m) ==
    /\ handlerAwaits => Quiescent
    /\ FreshCall(p, "publish", m)

NextConc ==
    \/ \E p \in Procs, m \in ConcModes : ConcCall(p, m)
    \/ \E p \in Procs : PublishStep(p)

\* the calls find the package at version 0.9.0 in a repository without tags,
\* no stale lock, and the github package not loaded
InitConc ==
    /\ Init
    /\ ~lock
    /\ ~githubLoaded
    /\ repo = EmptyRepo
    /\ manifest.kind = "json"
    /\ GetVersion(manifest.obj) = <<"0", ".", "9", ".", "0">>

SpecConc == InitConc /\ [][NextConc]_vars

\* C18: a call of publish is possible whenever a slot is free, whatever the
\* invocations in flight are doing; and two invocations that have read the
\* same version with the same mode have computed the same new version, name
\* the same tag in their tag commands, and have not both created it
C18_NoLocking ==
    /\ \A p \in Procs :
         pc[p] = "idle" /\ (\A q \in Procs : q < p => pc[q] # "idle")
            => ENABLED (\E m \in ConcModes : ConcCall(p, m))
    /\ \A p, q \in Procs :
         ( /\ p # q
           /\ oldVersion[p] # Undefined
           /\ oldVersion[p] = oldVersion[q]
           /\ mode0[p] = mode0[q] )
            => /\ newVersion[p] = newVersion[q]
               /\ Ran(p, {"tag"}) /\ Ran(q, {"tag"})
                    => /\ Entry(p, "tag").be = Entry(q, "tag").be
                            => Entry(p, "tag").args = Entry(q, "tag").args
                       /\ ~(Ended(p, "tag", "ok") /\ Ended(q, "tag", "ok"))

\* two invocations called on the same manifest both read 0.9.0 before either
\* wrote, both wrote 0.9.1 and committed, and both now await the same git tag
C18_Witness ==
    /\ pc[1] = "tag"
    /\ pc[2] = "tag"
    /\ manifest0[1] = manifest0[2]
    /\ oldVersion[1] = <<"0", ".", "9", ".", "0">>
    /\ oldVersion[2] = <<"0", ".", "9", ".", "0">>
    /\ newVersion[1] = <<"0", ".", "9", ".", "1">>
    /\ newVersion[2] = newVersion[1]
    /\ Entry(1, "tag").args = Entry(2, "tag").args
    /\ Len(repo.commits) >= 2
    /\ repo.commits[Len(repo.commits)] = repo.commits[Len(repo.commits) - 1]

=============================================================================
